---- MODULE Spec2Model ----
(***************************************************************************)
(* Model of the model lifecycle and training-job orchestration layer of    *)
(* the Photo-AI-Clone API (src/api).                                       *)
(*                                                                         *)
(*   Spec       the training job store and orchestrator                    *)
(*              (training_service.py, storage_service.py, main.py /train)  *)
(*   SpecCache  the model registry, cache and generation executor          *)
(*              (model_service.py, config.py, main.py /generate, /cache)   *)
(*                                                                         *)
(* Optional values (a dict key that may be missing, a None) are modelled   *)
(* as sequences of length 0 or 1: <<>> is "absent", <<v>> is "present".    *)
(*                                                                         *)
(* Timestamps are only ever compared within one metadata file, so the      *)
(* model stamps a write with its ordinal among the writes to that file     *)
(* (0 for the write that creates it): datetime.now() is strictly later at  *)
(* each later write, and so is the ordinal.                                *)
(***************************************************************************)
EXTENDS Integers, Sequences, FiniteSets, TLC

VARIABLES
    store,        \* users_dir/<user>/training_images/<model>/metadata.json
    images,       \* number of files in .../<model>/images, per location
    artifacts,    \* users_dir/<user>/models/<model>: saved pipeline present
    active_jobs,  \* TrainingService.active_jobs
    jobs,         \* one background task (start_training call) per training_id
    next_id,      \* number of training ids generated so far
    removed,      \* training ids whose training directory has been deleted
    status_log,   \* per execution, the statuses its updates have passed so
                  \* far, a repeated status listed once
    issued,       \* per execution, how many of its updates passed a terminal
                  \* status, and how many updates it issued after the first
                  \* of those
    model_cache,  \* ModelService.model_cache
    next_handle,  \* number of pipeline instances constructed so far
    calls,        \* number of model service calls made so far
    last_call,    \* what the last model service call did and returned
    acquired,     \* per model id, the handle the last get_or_load_model of it
                  \* returned since the last clear_cache
    seen,         \* the seeded generations so far: handle, parameters, seed and
                  \* image, and whether an unseeded generation came after
    torn,         \* the metadata.json files opened with mode "w" whose
                  \* json.dump has not finished
    writer,       \* per training id, the update_training_status call in flight
    poll,         \* what the last GET /train/{training_id}/status returned
    callers,      \* per caller thread, its place in get_or_load_model
    inserted      \* per model id, the handle of the latest cache assignment

vars == <<store, images, artifacts, active_jobs, jobs, next_id, removed, status_log,
          issued,
          model_cache, next_handle, calls, last_call, acquired, seen,
          torn, writer, poll, callers, inserted>>

trainVars == <<store, images, artifacts, active_jobs, jobs, next_id, removed, status_log,
               issued>>

cacheVars == <<model_cache, next_handle, calls, last_call, acquired, seen>>

threadVars == <<torn, writer, poll>>

raceVars == <<callers, inserted>>

-----------------------------------------------------------------------------
(* Bounds of the model                                                     *)

MaxEpochs == 2
MaxCalls == 3
MaxWrites == 2
MaxSteps == 40

-----------------------------------------------------------------------------
(* Program constants                                                       *)

MinImages == 10
MaxImages == 20
ReportEvery == 10
LoopBase == 40
LoopSpan == 50

Absent == <<>>

\* f"train_{uuid.uuid4().hex[:8]}": fresh names, handed out in this order
TrainingIdSeq == <<"train_ab12cd34", "train_0f3e9a77">>
TrainingIds == {TrainingIdSeq[i] : i \in 1..Len(TrainingIdSeq)}
UserIds == {"user_123"}
ModelIdentifiers == {"aurel_person", "other_person"}
Locations == UserIds \X ModelIdentifiers
Terminal == {"completed", "failed"}

\* str(e) of the exceptions the fine-tuning procedure may raise
ErrorDescriptions == {"CUDA out of memory", ""}

\* Inputs of POST /train drawn by the model: the number of uploads, how many
\* of them have no image content type, the hyperparameters and the strategy.
\* The epochs only matter to the DreamBooth loop of a job that gets there.
\* The endpoint queues start_training with use_lora=False; use_lora=TRUE is
\* the same submission made by a caller that selects start_training's other
\* strategy.
TrainRequests ==
    {r \in [uploads : {MinImages}, non_image : {0, 1}, suffix : {".png"},
            num_train_epochs : 1..MaxEpochs, train_batch_size : {1},
            use_lora : BOOLEAN] :
        (r.use_lora \/ r.non_image > 0) => r.num_train_epochs = 1}

\* The file name suffixes of the uploads that the image count of
\* start_training looks for (of these, .png and .jpg are drawn).
Suffixes == {".png", ".jpg"}

\* Uploads of either suffix, of the minimum number of files or one more.
DatasetRequests ==
    [uploads : {MinImages, MinImages + 1}, non_image : {0, 1}, suffix : Suffixes,
     num_train_epochs : {1}, train_batch_size : {1}, use_lora : {TRUE}]

-----------------------------------------------------------------------------
(* Job Metadata Store                                                      *)

Loc(user_id, model_identifier) == <<user_id, model_identifier>>

\* Job t has been created; the location of its training directory; the
\* custom_metadata of the record at a location.
Created(t) == jobs[t].pc # "none"

JobLoc(t) == Loc(jobs[t].user_id, jobs[t].model_identifier)

Custom(loc) == store[loc][1].custom_metadata

\* dict.get(key, default) on an optional field
Get(field, default) == IF field = Absent THEN default ELSE field[1]

\* Python truthiness of the error argument: None and "" are both falsy
Truthy(error) == error # Absent /\ error[1] # ""

Max(a, b) == IF a >= b THEN a ELSE b

\* The custom_metadata dict built by the /train endpoint.
training_metadata(training_id, num_train_epochs, train_batch_size) ==
    [training_id      |-> <<training_id>>,
     num_train_epochs |-> num_train_epochs,
     train_batch_size |-> train_batch_size,
     status           |-> "pending",
     progress         |-> Absent,
     message          |-> Absent,
     last_updated     |-> Absent,
     started_at       |-> Absent,
     completed_at     |-> Absent,
     error            |-> Absent]

\* An images directory with no file in it.
NoFiles == [x \in Suffixes |-> 0]

\* StorageService.save_training_images on the disk state d = [store, images]:
\* the image files are written under <model>_<idx><suffix> names (files of a
\* previous upload with a higher index or another suffix stay), then
\* metadata.json is opened with mode "w" and written, whether or not it
\* existed.
save_training_images(d, user_id, model_identifier, n_saved, suffix, metadata) ==
    LET loc == Loc(user_id, model_identifier)
        now == 0
        old == IF d.images[loc] = Absent THEN NoFiles ELSE d.images[loc][1]
    IN  [store  |-> [d.store EXCEPT ![loc] =
                        <<[user_id          |-> user_id,
                           model_identifier |-> model_identifier,
                           created_at       |-> now,
                           num_images       |-> n_saved,
                           custom_metadata  |-> metadata]>>],
         images |-> [d.images EXCEPT ![loc] =
                        <<[old EXCEPT ![suffix] = Max(@, n_saved)]>>]]

\* StorageService.delete_model_data: rmtree of the training directory.
delete_model_data(d, user_id, model_identifier) ==
    LET loc == Loc(user_id, model_identifier)
    IN  [store  |-> [d.store EXCEPT ![loc] = Absent],
         images |-> [d.images EXCEPT ![loc] = Absent]]

\* A mutation of writes_started_at: started_at is stamped by every update
\* that sets running.
writes_started_at_on_every_running(status, cm) == status = "running"

\* if status == "running" and "started_at" not in metadata["custom_metadata"]
writes_started_at(status, cm) == status = "running" /\ cm.started_at = Absent

\* A mutation of writes_completed_at: only completion is stamped.
writes_completed_at_on_completed_only(status) == status = "completed"

\* A mutation of writes_completed_at: only failure is stamped.
writes_completed_at_on_failed_only(status) == status = "failed"

\* if status in ["completed", "failed"]
writes_completed_at(status) == status \in Terminal

\* A mutation of job_info: the entry is built without the progress argument.
job_info_without_progress(training_id, status, progress, message, model_identifier, user_id) ==
    [training_id      |-> training_id,
     status           |-> status,
     progress         |-> 0,
     message          |-> message,
     model_identifier |-> model_identifier,
     user_id          |-> user_id]

\* The active_jobs entry written by update_training_status.
job_info(training_id, status, progress, message, model_identifier, user_id) ==
    [training_id      |-> training_id,
     status           |-> status,
     progress         |-> progress,
     message          |-> message,
     model_identifier |-> model_identifier,
     user_id          |-> user_id]

\* A mutation of update_training_status: the rewritten record loses a
\* training parameter.
update_training_status_resetting_parameters(s, user_id, model_identifier, training_id, status, progress, message, error) ==
    LET loc == Loc(user_id, model_identifier)
    IN  IF s.store[loc] = Absent
        THEN s
        ELSE
        LET metadata == s.store[loc][1]
            cm       == metadata.custom_metadata
            now      == Get(cm.last_updated, metadata.created_at) + 1
            setStart == writes_started_at(status, cm)
            setEnd   == writes_completed_at(status)
            cm2      == [cm EXCEPT
                            !.num_train_epochs = 0,
                            !.status       = status,
                            !.progress     = <<progress>>,
                            !.message      = <<message>>,
                            !.last_updated = <<now>>,
                            !.started_at   = IF setStart THEN <<now>> ELSE @,
                            !.completed_at = IF setEnd THEN <<now>> ELSE @,
                            !.error        = IF Truthy(error) THEN error ELSE @]
        IN  [store       |-> [s.store EXCEPT ![loc] =
                                 <<[metadata EXCEPT !.custom_metadata = cm2]>>],
             active_jobs |-> [s.active_jobs EXCEPT ![training_id] =
                                 <<job_info(training_id, status, progress, message,
                                            model_identifier, user_id)>>]]

\* A mutation of update_training_status: the in-memory entry is written
\* although there is no metadata file.
update_training_status_indexing_without_file(s, user_id, model_identifier, training_id, status, progress, message, error) ==
    LET loc == Loc(user_id, model_identifier)
    IN  IF s.store[loc] = Absent
        THEN [s EXCEPT !.active_jobs[training_id] =
                         <<job_info(training_id, status, progress, message,
                                    model_identifier, user_id)>>]
        ELSE
        LET metadata == s.store[loc][1]
            cm       == metadata.custom_metadata
            now      == Get(cm.last_updated, metadata.created_at) + 1
            setStart == writes_started_at(status, cm)
            setEnd   == writes_completed_at(status)
            cm2      == [cm EXCEPT
                            !.status       = status,
                            !.progress     = <<progress>>,
                            !.message      = <<message>>,
                            !.last_updated = <<now>>,
                            !.started_at   = IF setStart THEN <<now>> ELSE @,
                            !.completed_at = IF setEnd THEN <<now>> ELSE @,
                            !.error        = IF Truthy(error) THEN error ELSE @]
        IN  [store       |-> [s.store EXCEPT ![loc] =
                                 <<[metadata EXCEPT !.custom_metadata = cm2]>>],
             active_jobs |-> [s.active_jobs EXCEPT ![training_id] =
                                 <<job_info(training_id, status, progress, message,
                                            model_identifier, user_id)>>]]

\* TrainingService.update_training_status on s = [store, active_jobs].
update_training_status(s, user_id, model_identifier, training_id, status, progress, message, error) ==
    LET loc == Loc(user_id, model_identifier)
    IN  IF s.store[loc] = Absent
        THEN s
        ELSE
        LET metadata == s.store[loc][1]
            cm       == metadata.custom_metadata
            now      == Get(cm.last_updated, metadata.created_at) + 1
            setStart == writes_started_at(status, cm)
            setEnd   == writes_completed_at(status)
            cm2      == [cm EXCEPT
                            !.status       = status,
                            !.progress     = <<progress>>,
                            !.message      = <<message>>,
                            !.last_updated = <<now>>,
                            !.started_at   = IF setStart THEN <<now>> ELSE @,
                            !.completed_at = IF setEnd THEN <<now>> ELSE @,
                            !.error        = IF Truthy(error) THEN error ELSE @]
        IN  [store       |-> [s.store EXCEPT ![loc] =
                                 <<[metadata EXCEPT !.custom_metadata = cm2]>>],
             active_jobs |-> [s.active_jobs EXCEPT ![training_id] =
                                 <<job_info(training_id, status, progress, message,
                                            model_identifier, user_id)>>]]

\* A mutation of record_matches: the first metadata file found is taken.
record_matches_any(metadata, training_id) == TRUE

\* metadata.get("custom_metadata", {}).get("training_id") == training_id
record_matches(metadata, training_id) ==
    metadata.custom_metadata.training_id = <<training_id>>

\* The durable scan of get_training_status: the metadata file whose
\* custom_metadata.training_id is the requested id.
durable_scan(training_id) ==
    LET hits == {loc \in Locations :
                    /\ store[loc] # Absent
                    /\ record_matches(store[loc][1], training_id)}
    IN  IF hits = {}
        THEN Absent
        ELSE LET metadata == store[CHOOSE loc \in hits : TRUE][1]
                 cm       == metadata.custom_metadata
             IN  <<[training_id      |-> training_id,
                    status           |-> cm.status,
                    model_identifier |-> metadata.model_identifier,
                    user_id          |-> metadata.user_id,
                    progress         |-> Get(cm.progress, 0),
                    message          |-> Get(cm.message, ""),
                    started_at       |-> cm.started_at,
                    completed_at     |-> cm.completed_at]>>

\* TrainingService.get_training_status: the in-memory entry when there is
\* one, the durable scan otherwise; Absent is None (404 at the endpoint).
get_training_status(training_id) ==
    IF active_jobs[training_id] # Absent
    THEN active_jobs[training_id]
    ELSE durable_scan(training_id)

\* dict.get(key) on a returned dict: None when the dict has no such key.
get(info, key) == IF key \in DOMAIN info THEN info[key] ELSE Absent

\* GET /train/{training_id}/status: 404 (Absent) when the service returns
\* nothing, the TrainingStatusResponse built from the returned dict otherwise.
status_response(training_id) ==
    LET status_info == get_training_status(training_id)
    IN  IF status_info = Absent
        THEN Absent
        ELSE <<[training_id      |-> status_info[1].training_id,
                status           |-> status_info[1].status,
                progress         |-> status_info[1].progress,
                message          |-> status_info[1].message,
                model_identifier |-> status_info[1].model_identifier,
                user_id          |-> status_info[1].user_id,
                started_at       |-> get(status_info[1], "started_at"),
                completed_at     |-> get(status_info[1], "completed_at"),
                error            |-> get(status_info[1], "error")]>>

-----------------------------------------------------------------------------
(* Training Orchestrator                                                   *)

NoJob ==
    [pc |-> "none", user_id |-> "", model_identifier |-> "", use_lora |-> FALSE,
     num_train_epochs |-> 0, train_batch_size |-> 0,
     num_steps |-> 0, global_step |-> 0, error |-> ""]

S == [store |-> store, active_jobs |-> active_jobs]

Commit(s2) ==
    /\ store' = s2.store
    /\ active_jobs' = s2.active_jobs

\* One update_training_status call issued by the background task of job t.
Report(t, status, progress, message, error) ==
    update_training_status(S, jobs[t].user_id, jobs[t].model_identifier, t,
                           status, progress, message, error)

\* The execution of job t calls update_training_status; the status passed
\* is noted in the log of the execution.
Issue(t, status, progress, message, error) ==
    /\ Commit(Report(t, status, progress, message, error))
    /\ status_log' = [status_log EXCEPT ![t] =
                         IF @ # <<>> /\ @[Len(@)] = status THEN @ ELSE Append(@, status)]
    /\ issued' = [issued EXCEPT
                     ![t].terminal = IF status \in Terminal THEN @ + 1 ELSE @,
                     ![t].later = IF issued[t].terminal > 0 THEN @ + 1 ELSE @]

NoneIssued == [terminal |-> 0, later |-> 0]

Goto(t, pc) == jobs' = [jobs EXCEPT ![t].pc = pc]

\* What is left of a job whose frame is gone: its identity and where it ended.
Ended(job, pc) ==
    [NoJob EXCEPT !.pc = pc, !.user_id = job.user_id,
                  !.model_identifier = job.model_identifier]

\* An exception e propagates to the except clause at pc; the locals of the
\* try block are dead from here on.
Raise(t, pc, e) == jobs' = [jobs EXCEPT ![t] = [Ended(@, pc) EXCEPT !.error = e]]

Finish(t, pc) == jobs' = [jobs EXCEPT ![t] = Ended(@, pc)]

CeilDiv(a, b) == (a + b - 1) \div b

\* len(list(glob("*.png")) + list(glob("*.jpg")) + list(glob("*.jpeg"))) of
\* an images directory that exists
num_images(loc) == images[loc][1][".png"] + images[loc][1][".jpg"]

\* A mutation of loop_progress: the base of the loop's range is left out.
loop_progress_without_base(global_step, num_steps) ==
    (global_step * LoopSpan) \div num_steps

\* progress = 40 + int((global_step / num_steps) * 50)
loop_progress(global_step, num_steps) ==
    LoopBase + ((global_step * LoopSpan) \div num_steps)

\* The same expression in floating point: where the exact product is a whole
\* number other than 0 and 50, the rounded quotient times 50 may fall just
\* below it and int() then gives one less.  (For the step counts the loop of
\* this model reaches, 10, 20 and 30 steps reported every 10, it does not.)
loop_progress_values(global_step, num_steps) ==
    {loop_progress(global_step, num_steps)}
       \cup (IF /\ (global_step * LoopSpan) % num_steps = 0
                /\ global_step > 0
                /\ global_step < num_steps
             THEN {loop_progress(global_step, num_steps) - 1}
             ELSE {})

\* POST /train with a valid number of uploads: generate the training id, save
\* the images that have an image content type together with the pending
\* record, queue start_training as a background task.
TrainModel(user_id, model_identifier, r) ==
    LET uploads == r.uploads
        non_image == r.non_image
        num_train_epochs == r.num_train_epochs
        train_batch_size == r.train_batch_size
        use_lora == r.use_lora
    IN
    /\ next_id < Len(TrainingIdSeq)
    /\ uploads >= MinImages
    /\ uploads <= MaxImages
    /\ LET training_id == TrainingIdSeq[next_id + 1]
           d2 == save_training_images(
                     [store |-> store, images |-> images],
                     user_id, model_identifier, uploads - non_image, r.suffix,
                     training_metadata(training_id, num_train_epochs, train_batch_size))
       IN  /\ next_id' = next_id + 1
           /\ store' = d2.store
           /\ images' = d2.images
           /\ jobs' = [jobs EXCEPT ![training_id] =
                          [NoJob EXCEPT !.pc = "queued",
                                        !.user_id = user_id,
                                        !.model_identifier = model_identifier,
                                        !.use_lora = use_lora,
                                        !.num_train_epochs = num_train_epochs,
                                        !.train_batch_size = train_batch_size]]
    /\ UNCHANGED <<artifacts, active_jobs, removed, status_log, issued, cacheVars, threadVars, raceVars>>

\* start_training, first report.
StartTraining(t) ==
    /\ jobs[t].pc = "queued"
    /\ Issue(t, "running", 5, "Initializing training environment...", Absent)
    /\ Goto(t, "started")
    /\ UNCHANGED <<images, artifacts, next_id, removed, cacheVars, threadVars, raceVars>>

\* start_training: the images directory check, the image count check, the
\* output directory and the second report.
PrepareTraining(t) ==
    LET loc == Loc(jobs[t].user_id, jobs[t].model_identifier)
    IN  /\ jobs[t].pc = "started"
        /\ IF images[loc] = Absent
           THEN /\ Raise(t, "outer_except", "Training images directory not found")
                /\ UNCHANGED <<store, active_jobs, status_log, issued>>
           ELSE IF num_images(loc) < MinImages
           THEN /\ Raise(t, "outer_except", "Insufficient training images")
                /\ UNCHANGED <<store, active_jobs, status_log, issued>>
           ELSE /\ Issue(t, "running", 10, "Preparing to train...", Absent)
                /\ Goto(t, IF jobs[t].use_lora THEN "lora" ELSE "dreambooth")
        /\ UNCHANGED <<images, artifacts, next_id, removed, cacheVars, threadVars, raceVars>>

\* _train_lora
LoraLoad(t) ==
    /\ jobs[t].pc = "lora"
    /\ Issue(t, "running", 15, "Loading base model...", Absent)
    /\ Goto(t, "lora_15")
    /\ UNCHANGED <<images, artifacts, next_id, removed, cacheVars, threadVars, raceVars>>

LoraLaunch(t) ==
    /\ jobs[t].pc = "lora_15"
    /\ Issue(t, "running", 20, "Training in progress...", Absent)
    /\ Goto(t, "lora_20")
    /\ UNCHANGED <<images, artifacts, next_id, removed, cacheVars, threadVars, raceVars>>

\* A mutation of LoraComplete: the last report of the strategy keeps the
\* status running.
LoraComplete_still_running(t) ==
    /\ jobs[t].pc = "lora_20"
    /\ Issue(t, "running", 100, "Training completed!", Absent)
    /\ Finish(t, "returned")
    /\ UNCHANGED <<images, artifacts, next_id, removed, cacheVars, threadVars, raceVars>>

\* The training script is not executed: completion is reported at once.
LoraComplete(t) ==
    /\ jobs[t].pc = "lora_20"
    /\ Issue(t, "completed", 100, "Training completed!", Absent)
    /\ Finish(t, "returned")
    /\ UNCHANGED <<images, artifacts, next_id, removed, cacheVars, threadVars, raceVars>>

\* _train_dreambooth
DbBegin(t) ==
    /\ jobs[t].pc = "dreambooth"
    /\ Issue(t, "running", 15, "Loading base Stable Diffusion v1.5 model...", Absent)
    /\ Goto(t, "db_15")
    /\ UNCHANGED <<images, artifacts, next_id, removed, cacheVars, threadVars, raceVars>>

DbLoadComponents(t) ==
    /\ jobs[t].pc = "db_15"
    /\ Issue(t, "running", 20, "Loading model components...", Absent)
    /\ Goto(t, "db_20")
    /\ UNCHANGED <<images, artifacts, next_id, removed, cacheVars, threadVars, raceVars>>

DbPrepareDataset(t) ==
    /\ jobs[t].pc = "db_20"
    /\ Issue(t, "running", 30, "Preparing training dataset...", Absent)
    /\ Goto(t, "db_30")
    /\ UNCHANGED <<images, artifacts, next_id, removed, cacheVars, threadVars, raceVars>>

\* The dataset and the data loader are built from the files now in the images
\* directory (an empty dataset makes the shuffling loader raise), then the
\* loop is announced; num_steps = len(dataloader) * num_train_epochs.
DbStartLoop(t) ==
    LET loc == Loc(jobs[t].user_id, jobs[t].model_identifier)
        n   == IF images[loc] = Absent THEN 0 ELSE num_images(loc)
    IN  /\ jobs[t].pc = "db_30"
        /\ IF n = 0
           THEN /\ Raise(t, "db_except", "num_samples should be a positive integer value")
                /\ UNCHANGED <<store, active_jobs, status_log, issued>>
           ELSE /\ Issue(t, "running", 40, "Starting training...", Absent)
                /\ jobs' = [jobs EXCEPT
                              ![t].pc = "db_loop",
                              ![t].global_step = 0,
                              ![t].num_steps = CeilDiv(n, jobs[t].train_batch_size)
                                                 * jobs[t].num_train_epochs]
        /\ UNCHANGED <<images, artifacts, next_id, removed, cacheVars, threadVars, raceVars>>

\* The training loop up to its next progress report (every 10th global step)
\* or to its end: the batches in between touch no state of the job store.
DbTrainBatches(t) ==
    LET gs   == jobs[t].global_step
        next == gs + ReportEvery - (gs % ReportEvery)
        gs2  == IF next <= jobs[t].num_steps THEN next ELSE jobs[t].num_steps
    IN  /\ jobs[t].pc = "db_loop"
        /\ gs < jobs[t].num_steps
        /\ IF gs2 % ReportEvery = 0
           THEN Issue(t, "running", loop_progress(gs2, jobs[t].num_steps),
                              "Training epoch, step, loss", Absent)
           ELSE UNCHANGED <<store, active_jobs, status_log, issued>>
        /\ jobs' = [jobs EXCEPT ![t].global_step = gs2]
        /\ UNCHANGED <<images, artifacts, next_id, removed, cacheVars, threadVars, raceVars>>

DbFinishLoop(t) ==
    /\ jobs[t].pc = "db_loop"
    /\ jobs[t].global_step = jobs[t].num_steps
    /\ Issue(t, "running", 90, "Training complete! Saving model...", Absent)
    /\ Goto(t, "db_90")
    /\ UNCHANGED <<images, artifacts, next_id, removed, cacheVars, threadVars, raceVars>>

\* pipeline.save_pretrained(output_dir), then the completion report.
DbSave(t) ==
    /\ jobs[t].pc = "db_90"
    /\ artifacts' = [artifacts EXCEPT
                        ![Loc(jobs[t].user_id, jobs[t].model_identifier)] = TRUE]
    /\ Issue(t, "completed", 100, "DreamBooth training completed successfully!", Absent)
    /\ Finish(t, "returned")
    /\ UNCHANGED <<images, next_id, removed, cacheVars, threadVars, raceVars>>

\* Any exception of the imports, the component loads, the dataset, a batch or
\* the save, raised inside the try block of _train_dreambooth.
DbRaise(t, e) ==
    /\ jobs[t].pc \in {"db_15", "db_20", "db_30", "db_loop", "db_90"}
    /\ Raise(t, "db_except", e)
    /\ UNCHANGED <<store, images, artifacts, active_jobs, next_id, removed, status_log, issued, cacheVars, threadVars, raceVars>>

\* except clause of _train_dreambooth: report failed, re-raise.
DbExcept(t) ==
    /\ jobs[t].pc = "db_except"
    /\ Issue(t, "failed", 0, "Training failed", <<jobs[t].error>>)
    /\ Goto(t, "outer_except")
    /\ UNCHANGED <<images, artifacts, next_id, removed, cacheVars, threadVars, raceVars>>

\* A mutation of OuterExcept: the exception is re-raised without the failure
\* report.
OuterExcept_without_report(t) ==
    /\ jobs[t].pc = "outer_except"
    /\ Finish(t, "raised")
    /\ UNCHANGED <<store, active_jobs, images, artifacts, next_id, removed, status_log, issued, cacheVars, threadVars, raceVars>>

\* except clause of start_training: report failed, re-raise; the background
\* task ends.
OuterExcept(t) ==
    /\ jobs[t].pc = "outer_except"
    /\ Issue(t, "failed", 0, "Training failed", <<jobs[t].error>>)
    /\ Finish(t, "raised")
    /\ UNCHANGED <<images, artifacts, next_id, removed, cacheVars, threadVars, raceVars>>

\* delete_model_data of an existing training directory.
DeleteModelData(user_id, model_identifier) ==
    /\ store[Loc(user_id, model_identifier)] # Absent
    /\ LET d2 == delete_model_data(
                     [store |-> store, images |-> images],
                     user_id, model_identifier)
       IN  /\ store' = d2.store
           /\ images' = d2.images
    /\ removed' = removed \cup
          {t \in TrainingIds :
              /\ jobs[t].pc # "none"
              /\ Loc(jobs[t].user_id, jobs[t].model_identifier)
                    = Loc(user_id, model_identifier)}
    /\ UNCHANGED <<artifacts, active_jobs, jobs, next_id, status_log, issued, cacheVars, threadVars, raceVars>>

\* The process is replaced: TrainingService() starts with an empty
\* active_jobs and the background tasks of the old process are gone, with
\* the logs of the executions that were cut short.
Restart ==
    /\ \E t \in TrainingIds :
          \/ active_jobs[t] # Absent
          \/ jobs[t].pc \notin {"none", "returned", "raised", "killed"}
    /\ active_jobs' = [t \in TrainingIds |-> Absent]
    /\ jobs' = [t \in TrainingIds |->
                  IF jobs[t].pc \in {"none", "returned", "raised", "killed"}
                  THEN jobs[t]
                  ELSE Ended(jobs[t], "killed")]
    /\ status_log' = [t \in TrainingIds |->
                        IF jobs[t].pc \in {"none", "returned", "raised", "killed"}
                        THEN status_log[t]
                        ELSE <<>>]
    /\ issued' = [t \in TrainingIds |->
                    IF jobs[t].pc \in {"none", "returned", "raised", "killed"}
                    THEN issued[t]
                    ELSE NoneIssued]
    /\ UNCHANGED <<store, images, artifacts, next_id, removed, cacheVars, threadVars, raceVars>>

-----------------------------------------------------------------------------
(* Model Registry, Model Cache, Generation Executor                        *)

DEFAULT_MODEL_ID == "Aurel_diffusers"
FALLBACK_MODEL_ID == "runwayml/stable-diffusion-v1-5"

ModelIds == {DEFAULT_MODEL_ID, FALLBACK_MODEL_ID, "nonexistent/model"}

USER_MODELS == [u \in {"default", "user_123"} |-> DEFAULT_MODEL_ID]

\* Callers of /generate: the mapped users and one that is not mapped
CacheUsers == {"default", "user_123", "someone_else"}

\* seed: None or an integer
Seeds == {Absent, <<7>>}

\* what an unseeded generator may draw
Noise == {0, 1}

\* The generation parameters of a request; guidance_scale in tenths.
DefaultParams ==
    [num_inference_steps |-> 30, guidance_scale |-> 75, width |-> 512, height |-> 512]

\* The requests drawn by the model: the defaults, the lowest values the
\* schema accepts, and the defaults with one field just outside its range.
GenerationParams ==
    {DefaultParams,
     [num_inference_steps |-> 1, guidance_scale |-> 10, width |-> 256, height |-> 256],
     [DefaultParams EXCEPT !.num_inference_steps = 0],
     [DefaultParams EXCEPT !.num_inference_steps = 151],
     [DefaultParams EXCEPT !.guidance_scale = 9],
     [DefaultParams EXCEPT !.guidance_scale = 201],
     [DefaultParams EXCEPT !.width = 255],
     [DefaultParams EXCEPT !.width = 1025],
     [DefaultParams EXCEPT !.height = 255],
     [DefaultParams EXCEPT !.height = 1025]}

\* A mutation of GenerateRequest_valid: width has no upper limit.
GenerateRequest_valid_without_le_width(params) ==
    /\ params.num_inference_steps >= 1 /\ params.num_inference_steps <= 150
    /\ params.guidance_scale >= 10 /\ params.guidance_scale <= 200
    /\ params.width >= 256
    /\ params.height >= 256 /\ params.height <= 1024

\* The Field constraints of GenerateRequest (ge, le), checked before the
\* endpoint body runs; ModelService.generate_image has no check of its own.
GenerateRequest_valid(params) ==
    /\ params.num_inference_steps >= 1 /\ params.num_inference_steps <= 150
    /\ params.guidance_scale >= 10 /\ params.guidance_scale <= 200
    /\ params.width >= 256 /\ params.width <= 1024
    /\ params.height >= 256 /\ params.height <= 1024

\* The sets of model ids whose StableDiffusionPipeline.from_pretrained, move
\* to the device and memory optimisation succeed at the time of a call.
Loadable == SUBSET {DEFAULT_MODEL_ID, FALLBACK_MODEL_ID}

\* A mutation of get_model_id: an unmapped user gets the fallback model.
get_model_id_unmapped_to_fallback(user_id) ==
    IF user_id \in DOMAIN USER_MODELS THEN USER_MODELS[user_id] ELSE FALLBACK_MODEL_ID

\* USER_MODELS.get(user_id, DEFAULT_MODEL_ID)
get_model_id(user_id) ==
    IF user_id \in DOMAIN USER_MODELS THEN USER_MODELS[user_id] ELSE DEFAULT_MODEL_ID

\* A mutation of load_model: a failed fallback load is retried once more.
load_model_retrying_fallback(model_id, loadable, instance) ==
    LET pipe(m) == <<[instance |-> instance, loaded_from |-> m]>>
    IN  IF model_id \in loadable
        THEN [ok |-> TRUE, pipe |-> pipe(model_id), attempts |-> <<model_id>>]
        ELSE [ok |-> FALLBACK_MODEL_ID \in loadable,
              pipe |-> IF FALLBACK_MODEL_ID \in loadable
                       THEN pipe(FALLBACK_MODEL_ID) ELSE Absent,
              attempts |-> IF FALLBACK_MODEL_ID \in loadable
                           THEN <<model_id, FALLBACK_MODEL_ID>>
                           ELSE <<model_id, FALLBACK_MODEL_ID, FALLBACK_MODEL_ID>>]

\* ModelService.load_model(model_id) when the ids in `loadable` load and
\* `instance` names the next pipeline object: [ok, pipe, attempts], where
\* attempts lists the ids whose load was tried, in order, and ok = FALSE is
\* the raised "Failed to load model".
RECURSIVE load_model(_, _, _)
load_model(model_id, loadable, instance) ==
    IF model_id \in loadable
    THEN [ok |-> TRUE,
          pipe |-> <<[instance |-> instance, loaded_from |-> model_id]>>,
          attempts |-> <<model_id>>]
    ELSE IF model_id # FALLBACK_MODEL_ID
    THEN LET r == load_model(FALLBACK_MODEL_ID, loadable, instance)
         IN  [r EXCEPT !.attempts = <<model_id>> \o @]
    ELSE [ok |-> FALSE, pipe |-> Absent, attempts |-> <<model_id>>]

\* A mutation of cached: an entry loaded from another id does not count.
cached_own_weights_only(cache, model_id) ==
    cache[model_id] # Absent /\ cache[model_id][1].loaded_from = model_id

\* A mutation of cached: the cache is never consulted.
cached_never(cache, model_id) == FALSE

\* if model_id in self.model_cache
cached(cache, model_id) == cache[model_id] # Absent

\* A mutation of cache_insert: an entry already there is kept.
cache_insert_if_absent(cache, model_id, pipe) ==
    IF cache[model_id] # Absent THEN cache ELSE [cache EXCEPT ![model_id] = pipe]

\* self.model_cache[model_id] = pipe
cache_insert(cache, model_id, pipe) == [cache EXCEPT ![model_id] = pipe]

\* A mutation of get_or_load_model: a failed load leaves a placeholder entry.
get_or_load_model_caching_failure(cache, user_id, loadable, instance) ==
    LET model_id == get_model_id(user_id)
    IN  IF cached(cache, model_id)
        THEN [cache |-> cache, ok |-> TRUE, pipe |-> cache[model_id],
              model_id |-> <<model_id>>, attempts |-> <<>>]
        ELSE LET r == load_model(model_id, loadable, instance)
             IN  IF r.ok
                 THEN [cache |-> cache_insert(cache, model_id, r.pipe),
                       ok |-> TRUE, pipe |-> r.pipe,
                       model_id |-> <<model_id>>, attempts |-> r.attempts]
                 ELSE [cache |-> cache_insert(cache, model_id,
                                     <<[instance |-> 0, loaded_from |-> model_id]>>),
                       ok |-> FALSE, pipe |-> Absent,
                       model_id |-> Absent, attempts |-> r.attempts]

\* ModelService.get_or_load_model(user_id) on the cache: [cache, ok, pipe,
\* model_id, attempts]; ok = FALSE is the exception of load_model passing
\* through.
get_or_load_model(cache, user_id, loadable, instance) ==
    LET model_id == get_model_id(user_id)
    IN  IF cached(cache, model_id)
        THEN [cache |-> cache, ok |-> TRUE, pipe |-> cache[model_id],
              model_id |-> <<model_id>>, attempts |-> <<>>]
        ELSE LET r == load_model(model_id, loadable, instance)
             IN  IF r.ok
                 THEN [cache |-> cache_insert(cache, model_id, r.pipe),
                       ok |-> TRUE, pipe |-> r.pipe,
                       model_id |-> <<model_id>>, attempts |-> r.attempts]
                 ELSE [cache |-> cache, ok |-> FALSE, pipe |-> Absent,
                       model_id |-> Absent, attempts |-> r.attempts]

\* A mutation of pipe_call: the generator is not handed to the pipeline.
pipe_call_without_generator(pipe, params, seed, noise) ==
    [weights |-> pipe.loaded_from, params |-> params, seed |-> seed,
     noise |-> noise]

\* pipe(prompt=..., generator=...): the image is a function of the weights,
\* of the parameters and of the seeded generator; without a seed it also
\* depends on the draw.
pipe_call(pipe, params, seed, noise) ==
    [weights |-> pipe.loaded_from, params |-> params, seed |-> seed,
     noise |-> IF seed = Absent THEN noise ELSE 0]

NoCall ==
    [op |-> "none", user_id |-> "", params |-> Absent, seed |-> Absent,
     requested |-> "", loadable |-> {}, ok |-> FALSE,
     pipe |-> Absent, model_id |-> Absent, attempts |-> <<>>, image |-> Absent]

\* A mutation of clear_cache: the default model stays resident.
clear_cache_keeping_default(cache) ==
    [m \in DOMAIN cache |-> IF m = DEFAULT_MODEL_ID THEN cache[m] ELSE Absent]

\* self.model_cache.clear()
clear_cache(cache) == [m \in DOMAIN cache |-> Absent]

Loads(attempts, loadable) ==
    Cardinality({i \in 1..Len(attempts) : attempts[i] \in loadable})

\* ModelService.generate_image(user_id, prompt, ..., seed), as called by the
\* /generate endpoints: returns (image, model_id) or raises.
GenerateImage(user_id, params, seed, loadable, noise) ==
    /\ calls < MaxCalls
    /\ GenerateRequest_valid(params)
    /\ LET r == get_or_load_model(model_cache, user_id, loadable, next_handle + 1)
           image == pipe_call(r.pipe[1], params, seed, noise)
       IN  /\ model_cache' = r.cache
           /\ seen' = IF ~r.ok THEN seen
                      ELSE IF seed = Absent
                      THEN {[e EXCEPT !.unseeded_since = TRUE] : e \in seen}
                      ELSE seen \cup {[pipe |-> r.pipe, params |-> params,
                                       seed |-> seed, image |-> image,
                                       unseeded_since |-> FALSE]}
           /\ next_handle' = next_handle + Loads(r.attempts, loadable)
           /\ acquired' = IF r.ok
                          THEN [acquired EXCEPT ![get_model_id(user_id)] = r.pipe]
                          ELSE acquired
           /\ last_call' =
                 [op |-> "generate_image", user_id |-> user_id,
                  params |-> <<params>>, seed |-> seed,
                  requested |-> get_model_id(user_id),
                  loadable |-> loadable, ok |-> r.ok, pipe |-> r.pipe,
                  model_id |-> r.model_id, attempts |-> r.attempts,
                  image |-> IF r.ok THEN <<image>> ELSE Absent]
    /\ calls' = calls + 1
    /\ UNCHANGED <<trainVars, threadVars, raceVars>>

\* A /generate request that fails the validation of GenerateRequest: 422,
\* the endpoint body does not run.
GenerateRejected(user_id, params) ==
    /\ calls < MaxCalls
    /\ ~GenerateRequest_valid(params)
    /\ last_call' = [NoCall EXCEPT !.op = "rejected", !.user_id = user_id,
                                   !.params = <<params>>]
    /\ calls' = calls + 1
    /\ UNCHANGED <<model_cache, next_handle, acquired, seen, trainVars, threadVars, raceVars>>

\* ModelService.load_model(model_id) called on its own: the pipeline it
\* returns is not cached.
LoadModel(model_id, loadable) ==
    /\ calls < MaxCalls
    /\ LET r == load_model(model_id, loadable, next_handle + 1)
       IN  /\ next_handle' = next_handle + Loads(r.attempts, loadable)
           /\ last_call' =
                 [NoCall EXCEPT !.op = "load_model", !.requested = model_id,
                                !.loadable = loadable, !.ok = r.ok,
                                !.pipe = r.pipe, !.attempts = r.attempts]
    /\ calls' = calls + 1
    /\ UNCHANGED <<model_cache, acquired, seen, trainVars, threadVars, raceVars>>

\* ModelService.clear_cache (DELETE /cache, and at shutdown)
ClearCache ==
    /\ model_cache' = clear_cache(model_cache)
    /\ acquired' = [m \in ModelIds |-> Absent]
    /\ last_call' = [NoCall EXCEPT !.op = "clear_cache", !.ok = TRUE]
    /\ UNCHANGED <<next_handle, calls, seen, trainVars, threadVars, raceVars>>

get_loaded_models_count == Cardinality({m \in ModelIds : model_cache[m] # Absent})

-----------------------------------------------------------------------------
(* update_training_status and get_training_status, statement by statement:  *)
(* start_training runs in a thread of the pool while the status endpoint    *)
(* runs on the event loop.                                                  *)

\* The updates a caller passes: status, progress, message.
Reports ==
    {<<"running", 5, "Initializing training environment...">>,
     <<"completed", 100, "Training completed!">>}

NoPoll == [training_id |-> "", outcome |-> "none", status |-> ""]

\* update_training_status up to open(metadata_path, "w"): the file exists,
\* it is read and parsed, the new metadata is computed, and the file is
\* opened for writing, which truncates it.  One write of a file at a time.
UpdateOpen(t, report) ==
    /\ Created(t)
    /\ writer[t] = Absent
    /\ store[JobLoc(t)] # Absent
    /\ JobLoc(t) \notin torn
    /\ Get(Custom(JobLoc(t)).last_updated, 0) < MaxWrites
    /\ writer' = [writer EXCEPT ![t] =
                     <<[pc |-> "dump",
                        s2 |-> update_training_status(
                                   S, jobs[t].user_id, jobs[t].model_identifier, t,
                                   report[1], report[2], report[3], Absent)]>>]
    /\ torn' = torn \cup {JobLoc(t)}
    /\ UNCHANGED <<trainVars, cacheVars, poll, raceVars>>

\* json.dump(metadata, f, indent=2) and the close of the file.
UpdateDump(t) ==
    /\ writer[t] # Absent
    /\ writer[t][1].pc = "dump"
    /\ store' = [store EXCEPT ![JobLoc(t)] = writer[t][1].s2.store[JobLoc(t)]]
    /\ torn' = torn \ {JobLoc(t)}
    /\ writer' = [writer EXCEPT ![t][1].pc = "index"]
    /\ UNCHANGED <<images, artifacts, active_jobs, jobs, next_id, removed,
                   status_log, issued, cacheVars, poll, raceVars>>

\* self.active_jobs[training_id] = {...}; the call returns.
UpdateIndex(t) ==
    /\ writer[t] # Absent
    /\ writer[t][1].pc = "index"
    /\ active_jobs' = [active_jobs EXCEPT ![t] = writer[t][1].s2.active_jobs[t]]
    /\ writer' = [writer EXCEPT ![t] = Absent]
    /\ UNCHANGED <<store, images, artifacts, jobs, next_id, removed,
                   status_log, issued, cacheVars, torn, poll, raceVars>>

\* What one get_training_status(training_id) call may do when the files in
\* torn are being written: the in-memory entry if there is one; otherwise the
\* scan opens the metadata files in directory order and json.load raises on a
\* truncated or partly written file, unless the record was found before that
\* file was reached.
scan_outcomes(training_id) ==
    IF active_jobs[training_id] # Absent
    THEN {[training_id |-> training_id, outcome |-> "found",
           status |-> active_jobs[training_id][1].status]}
    ELSE LET whole == {loc \in Locations : store[loc] # Absent /\ loc \notin torn}
             hits  == {loc \in whole : record_matches(store[loc][1], training_id)}
         IN  {[training_id |-> training_id, outcome |-> "found",
               status |-> store[loc][1].custom_metadata.status] : loc \in hits}
             \cup (IF torn # {}
                   THEN {[training_id |-> training_id, outcome |-> "error",
                          status |-> ""]}
                   ELSE {})
             \cup (IF hits = {} /\ torn = {}
                   THEN {[training_id |-> training_id, outcome |-> "not_found",
                          status |-> ""]}
                   ELSE {})

\* A mutation of GetTrainingStatus: a record found by the scan is put into
\* the in-memory index.
GetTrainingStatus_filling_index(t) ==
    /\ \E outcome \in scan_outcomes(t) :
          /\ poll' = outcome
          /\ active_jobs' =
                IF outcome.outcome = "found" /\ active_jobs[t] = Absent
                THEN [active_jobs EXCEPT ![t] =
                         <<job_info(t, outcome.status, 0, "", "", "")>>]
                ELSE active_jobs
    /\ UNCHANGED <<store, images, artifacts, jobs, next_id, removed, status_log, issued,
                   cacheVars, torn, writer, raceVars>>

\* GET /train/{training_id}/status: 200 with the status, 404, or 500 when
\* get_training_status raised.
GetTrainingStatus(t) ==
    /\ \E outcome \in scan_outcomes(t) : poll' = outcome
    /\ UNCHANGED <<trainVars, cacheVars, torn, writer, raceVars>>

-----------------------------------------------------------------------------
(* get_or_load_model, statement by statement, called by threads that share  *)
(* the ModelService object.  The /generate endpoints are coroutines that    *)
(* call the service without awaiting, so the event loop runs their acquires *)
(* one at a time; the interleavings below are those of callers that use the *)
(* service from more than one thread.                                       *)

Callers == {"a", "b"}

NoCaller == [pc |-> "idle", model_id |-> "", pipe |-> Absent]

\* model_id = self.get_model_id(user_id); if model_id in self.model_cache:
\* return self.model_cache[model_id], model_id
AcquireCheck(c, user_id) ==
    /\ callers[c].pc = "idle"
    /\ calls < MaxCalls
    /\ LET model_id == get_model_id(user_id)
       IN  callers' = [callers EXCEPT ![c] =
                          IF cached(model_cache, model_id)
                          THEN [pc |-> "returned", model_id |-> model_id,
                                pipe |-> model_cache[model_id]]
                          ELSE [pc |-> "load", model_id |-> model_id,
                                pipe |-> Absent]]
    /\ calls' = calls + 1
    /\ UNCHANGED <<model_cache, next_handle, last_call, acquired, seen, inserted,
                   trainVars, threadVars>>

\* pipe = self.load_model(model_id)
AcquireLoad(c, loadable) ==
    /\ callers[c].pc = "load"
    /\ LET r == load_model(callers[c].model_id, loadable, next_handle + 1)
       IN  /\ next_handle' = next_handle + Loads(r.attempts, loadable)
           /\ callers' = [callers EXCEPT ![c].pc = IF r.ok THEN "insert" ELSE "raised",
                                         ![c].pipe = r.pipe]
    /\ UNCHANGED <<model_cache, calls, last_call, acquired, seen, inserted,
                   trainVars, threadVars>>

\* self.model_cache[model_id] = pipe; return pipe, model_id
AcquireInsert(c) ==
    /\ callers[c].pc = "insert"
    /\ model_cache' = cache_insert(model_cache, callers[c].model_id, callers[c].pipe)
    /\ inserted' = [inserted EXCEPT ![callers[c].model_id] = callers[c].pipe]
    /\ callers' = [callers EXCEPT ![c].pc = "returned"]
    /\ UNCHANGED <<next_handle, calls, last_call, acquired, seen,
                   trainVars, threadVars>>

\* The caller has its result, or the exception, and is free to call again.
AcquireDone(c) ==
    /\ callers[c].pc \in {"returned", "raised"}
    /\ callers' = [callers EXCEPT ![c] = NoCaller]
    /\ UNCHANGED <<cacheVars, inserted, trainVars, threadVars>>

-----------------------------------------------------------------------------

InitTrain ==
    /\ store = [loc \in Locations |-> Absent]
    /\ images = [loc \in Locations |-> Absent]
    /\ artifacts = [loc \in Locations |-> FALSE]
    /\ active_jobs = [t \in TrainingIds |-> Absent]
    /\ jobs = [t \in TrainingIds |-> NoJob]
    /\ next_id = 0
    /\ removed = {}
    /\ status_log = [t \in TrainingIds |-> <<>>]
    /\ issued = [t \in TrainingIds |-> NoneIssued]

InitCache ==
    /\ model_cache = [m \in ModelIds |-> Absent]
    /\ next_handle = 0
    /\ calls = 0
    /\ last_call = NoCall
    /\ acquired = [m \in ModelIds |-> Absent]
    /\ seen = {}

InitThreads ==
    /\ torn = {}
    /\ writer = [t \in TrainingIds |-> Absent]
    /\ poll = NoPoll

InitRace ==
    /\ callers = [c \in Callers |-> NoCaller]
    /\ inserted = [m \in ModelIds |-> Absent]

Init == InitTrain /\ InitCache /\ InitThreads /\ InitRace

Next ==
    \/ \E user_id \in UserIds, model_identifier \in ModelIdentifiers,
          r \in TrainRequests :
          TrainModel(user_id, model_identifier, r)
    \/ \E t \in TrainingIds :
          \/ StartTraining(t)
          \/ PrepareTraining(t)
          \/ LoraLoad(t)
          \/ LoraLaunch(t)
          \/ LoraComplete(t)
          \/ DbBegin(t)
          \/ DbLoadComponents(t)
          \/ DbPrepareDataset(t)
          \/ DbStartLoop(t)
          \/ DbTrainBatches(t)
          \/ DbFinishLoop(t)
          \/ DbSave(t)
          \/ DbExcept(t)
          \/ OuterExcept(t)
    \/ \E t \in TrainingIds, e \in ErrorDescriptions : DbRaise(t, e)
    \/ \E user_id \in UserIds, model_identifier \in ModelIdentifiers :
          DeleteModelData(user_id, model_identifier)
    \/ Restart

Spec == Init /\ [][Next]_vars

NextCache ==
    \/ \E user_id \in CacheUsers, params \in GenerationParams, seed \in Seeds,
          loadable \in Loadable, noise \in Noise :
          GenerateImage(user_id, params, seed, loadable, noise)
    \/ \E user_id \in CacheUsers, params \in GenerationParams :
          GenerateRejected(user_id, params)
    \/ \E model_id \in ModelIds, loadable \in Loadable :
          LoadModel(model_id, loadable)
    \/ ClearCache

SpecCache == Init /\ [][NextCache]_vars

\* The strategy and the hyperparameters of a job play no part in how its
\* record is written and read: the jobs are created with use_lora = FALSE,
\* as the endpoint does, and one epoch.
NextWrite ==
    \/ \E user_id \in UserIds, model_identifier \in ModelIdentifiers,
          r \in {x \in TrainRequests : ~x.use_lora /\ x.num_train_epochs = 1} :
          TrainModel(user_id, model_identifier, r)
    \/ \E t \in TrainingIds, report \in Reports : UpdateOpen(t, report)
    \/ \E t \in TrainingIds :
          \/ UpdateDump(t)
          \/ UpdateIndex(t)
          \/ GetTrainingStatus(t)

SpecWrite == Init /\ [][NextWrite]_vars

\* Two threads in get_or_load_model.
NextRace ==
    \/ \E c \in Callers, user_id \in CacheUsers : AcquireCheck(c, user_id)
    \/ \E c \in Callers, loadable \in Loadable : AcquireLoad(c, loadable)
    \/ \E c \in Callers : AcquireInsert(c)
    \/ \E c \in Callers : AcquireDone(c)

SpecRace == Init /\ [][NextRace]_vars

\* Uploads of both suffixes to the same locations, trained with the LoRA
\* strategy.
NextDataset ==
    \/ \E user_id \in UserIds, model_identifier \in ModelIdentifiers,
          r \in DatasetRequests :
          TrainModel(user_id, model_identifier, r)
    \/ \E t \in TrainingIds :
          \/ StartTraining(t)
          \/ PrepareTraining(t)
          \/ LoraLoad(t)
          \/ LoraLaunch(t)
          \/ LoraComplete(t)
          \/ OuterExcept(t)
    \/ \E user_id \in UserIds, model_identifier \in ModelIdentifiers :
          DeleteModelData(user_id, model_identifier)

SpecDataset == Init /\ [][NextDataset]_vars

-----------------------------------------------------------------------------
(* Properties of the training job store and orchestrator (Spec)            *)

\* The step leaves at loc the record of the same training id: the file was
\* neither created anew nor deleted, so any change to it is an update.
SameRecord(loc) ==
    /\ store[loc] # Absent
    /\ store'[loc] # Absent
    /\ store'[loc][1].custom_metadata.training_id = Custom(loc).training_id

\* The step is the failure report of job t: an except clause has run.
ReportsFailure(t) ==
    \/ jobs[t].pc = "db_except" /\ jobs'[t].pc = "outer_except"
    \/ jobs[t].pc = "outer_except" /\ jobs'[t].pc = "raised"

\* The step is a process restart.
IsRestart ==
    /\ \E t \in TrainingIds : active_jobs[t] # Absent
    /\ \A t \in TrainingIds : active_jobs'[t] = Absent

\* C1: once a record is completed or failed, no later update changes any field
\* of the durable record or of the in-memory entry.
C1_TerminalRecordImmutable ==
    [][/\ \A loc \in Locations :
             (SameRecord(loc) /\ Custom(loc).status \in Terminal)
                => store'[loc] = store[loc]
       /\ \A t \in TrainingIds :
             (/\ active_jobs[t] # Absent
              /\ active_jobs[t][1].status \in Terminal
              /\ active_jobs'[t] # Absent)
                => active_jobs'[t] = active_jobs[t]]_vars

C3_CreateNeverOverwrites ==
    [][\A loc \in Locations :
          (store[loc] # Absent /\ store'[loc] # Absent)
             => store'[loc][1].custom_metadata.training_id
                  = Custom(loc).training_id]_vars

\* C7: after a restart every job that was created and whose directory was not
\* removed is found by its training id, with the status, progress and message
\* of the last update that was written for it (the pending record when none
\* was).
C7_FoundAfterRestart ==
    [][IsRestart =>
          \A t \in TrainingIds :
             (Created(t) /\ t \notin removed)
                => /\ get_training_status(t)' # Absent
                   /\ LET got == get_training_status(t)'[1]
                      IN  IF active_jobs[t] # Absent
                          THEN /\ got.status = active_jobs[t][1].status
                               /\ got.progress = active_jobs[t][1].progress
                               /\ got.message = active_jobs[t][1].message
                          ELSE /\ got.status = "pending"
                               /\ got.progress = 0]_vars

\* C8: started_at is written by the first update that sets status running, at
\* that update, and no later update of the record changes it.
C8_StartedAtWrittenOnce ==
    [][\A loc \in Locations :
          SameRecord(loc)
             => LET old == Custom(loc)
                    new == store'[loc][1].custom_metadata
                IN  /\ old.started_at # Absent => new.started_at = old.started_at
                    /\ (old.started_at = Absent /\ new.started_at # Absent)
                          => (new.status = "running"
                              /\ new.started_at = new.last_updated)
                    /\ (old.started_at = Absent /\ new.status = "running"
                        /\ new # old)
                          => new.started_at # Absent]_vars

\* A record that has been updated with status running several times and
\* still carries the started_at of the first of them.
C8_Witness ==
    \E loc \in Locations :
        /\ store[loc] # Absent
        /\ Custom(loc).status = "running"
        /\ Custom(loc).started_at = <<1>>
        /\ Custom(loc).last_updated = <<4>>

\* C9: the progress that successive get_training_status calls return for a
\* job while it is running never decreases.
C9_PolledProgressMonotone ==
    [][\A t \in TrainingIds :
          LET before == get_training_status(t)
              after  == get_training_status(t)'
          IN  (/\ before # Absent
               /\ after # Absent
               /\ before[1].status = "running"
               /\ after[1].status = "running")
                 => after[1].progress >= before[1].progress]_vars

StatusMoves ==
    {<<"pending", "running">>, <<"running", "completed">>,
     <<"running", "failed">>}

\* C10: a status, as stored and as returned by get_training_status, starts
\* as pending and only moves pending -> running -> completed or failed.
C10_StatusStateMachine ==
    [][/\ \A loc \in Locations :
             /\ (store'[loc] # Absent /\ ~SameRecord(loc))
                   => store'[loc][1].custom_metadata.status = "pending"
             /\ (SameRecord(loc)
                 /\ store'[loc][1].custom_metadata.status # Custom(loc).status)
                   => <<Custom(loc).status,
                        store'[loc][1].custom_metadata.status>> \in StatusMoves
       /\ \A t \in TrainingIds :
             LET before == get_training_status(t)
                 after  == get_training_status(t)'
             IN  /\ (before = Absent /\ after # Absent)
                       => after[1].status = "pending"
                 /\ (before # Absent /\ after # Absent
                     /\ after[1].status # before[1].status)
                       => <<before[1].status, after[1].status>> \in StatusMoves]_vars

-----------------------------------------------------------------------------
(* Properties of the model cache (SpecCache)                               *)

\* The step is a generate_image call, which acquires the model of its user.
IsAcquire == calls' = calls + 1 /\ last_call'.op = "generate_image"

\* C4: an acquire of a model id that an earlier acquire returned a handle
\* for, with no clear_cache in between, returns that same handle instance and
\* performs no load.
C4_SecondAcquireHitsCache ==
    [][(IsAcquire /\ acquired[last_call'.requested] # Absent)
          => /\ last_call'.ok
             /\ last_call'.pipe = acquired[last_call'.requested]
             /\ last_call'.attempts = <<>>
             /\ next_handle' = next_handle]_vars

\* A second acquire has been served from the cache.
C4_Witness ==
    /\ last_call.op = "generate_image"
    /\ last_call.ok
    /\ last_call.attempts = <<>>
    /\ acquired[last_call.requested] = last_call.pipe
    /\ calls >= 2

\* C5: a call tries at most two loads, the requested id and then, only when
\* that failed and is not the fallback id, the fallback id once; it fails
\* exactly when the last id tried is the fallback id and its load failed.
C5_AtMostOneFallbackAttempt ==
    LET a == last_call.attempts
        n == Len(last_call.attempts)
    IN  last_call.op \in {"generate_image", "load_model"}
           => /\ n <= 2
              /\ n >= 1 => a[1] = last_call.requested
              /\ n = 2 <=> /\ n >= 1
                           /\ last_call.requested \notin last_call.loadable
                           /\ last_call.requested # FALLBACK_MODEL_ID
              /\ n = 2 => a[2] = FALLBACK_MODEL_ID
              /\ ~last_call.ok <=> /\ n >= 1
                                   /\ a[n] = FALLBACK_MODEL_ID
                                   /\ FALLBACK_MODEL_ID \notin last_call.loadable
              /\ (last_call.ok /\ n >= 1)
                    => /\ a[n] \in last_call.loadable
                       /\ last_call.pipe[1].loaded_from = a[n]

\* An acquire has tried the requested id and the fallback id, and failed.
C5_Witness ==
    /\ last_call.op = "generate_image"
    /\ Len(last_call.attempts) = 2
    /\ ~last_call.ok

\* C6: when the load of the requested id failed and the fallback load
\* succeeded, the model identifier returned with the handle and the image is
\* the fallback identifier.
C6_ReportsFallbackIdentifier ==
    (/\ last_call.op = "generate_image"
     /\ last_call.ok
     /\ Len(last_call.attempts) = 2)
       => last_call.model_id = <<FALLBACK_MODEL_ID>>

-----------------------------------------------------------------------------
(* Further properties of the training job store and orchestrator (Spec)    *)

\* C11: a durable record with status completed has progress 100 and
\* completed_at set, and an in-memory entry with status completed has
\* progress 100.
C11_CompletedHasFullProgress ==
    /\ \A loc \in Locations :
          (store[loc] # Absent /\ Custom(loc).status = "completed")
             => /\ Custom(loc).progress = <<100>>
                /\ Custom(loc).completed_at # Absent
    /\ \A t \in TrainingIds :
          (active_jobs[t] # Absent /\ active_jobs[t][1].status = "completed")
             => active_jobs[t][1].progress = 100

\* A job has returned and its record is completed.
C11_Witness ==
    \E t \in TrainingIds :
        /\ jobs[t].pc = "returned"
        /\ store[JobLoc(t)] # Absent
        /\ Custom(JobLoc(t)).training_id = <<t>>
        /\ Custom(JobLoc(t)).status = "completed"
        /\ active_jobs[t] # Absent

\* C12: no job is completed without a saved artifact: when the execution of
\* a job has returned, the trained model is in the job's output directory.
C12_CompletedOnlyAfterArtifact ==
    \A t \in TrainingIds :
        jobs[t].pc = "returned" => artifacts[JobLoc(t)]

\* The step ends the execution of start_training for job t: it returns or
\* the exception leaves it.
EndsExecution(t) ==
    /\ jobs[t].pc \notin {"none", "returned", "raised", "killed"}
    /\ jobs'[t].pc \in {"returned", "raised"}

\* C13 as stated: an execution that returns or raises leaves the job's record
\* completed or failed, and failed with the error's description when an
\* exception was raised.
C13_EndsTerminalWithError ==
    [][\A t \in TrainingIds :
          EndsExecution(t)
             => /\ store'[JobLoc(t)] # Absent
                /\ store'[JobLoc(t)][1].custom_metadata.status \in Terminal
                /\ jobs'[t].pc = "raised"
                      => /\ store'[JobLoc(t)][1].custom_metadata.status = "failed"
                         /\ store'[JobLoc(t)][1].custom_metadata.error
                              = <<jobs[t].error>>]_vars

\* C13 amended: when the metadata file of the job's location exists as the
\* execution ends, the record is left completed by a return and failed by an
\* exception, with the error's description when that is not empty, and the
\* job's in-memory entry has the same status.
C13_EndsTerminalWhenRecordExists ==
    [][\A t \in TrainingIds :
          (EndsExecution(t) /\ store[JobLoc(t)] # Absent)
             => LET new == store'[JobLoc(t)][1].custom_metadata
                    end == IF jobs'[t].pc = "raised" THEN "failed" ELSE "completed"
                IN  /\ new.status = end
                    /\ new.completed_at = new.last_updated
                    /\ (end = "failed" /\ jobs[t].error # "")
                          => new.error = <<jobs[t].error>>
                    /\ active_jobs'[t] # Absent
                    /\ active_jobs'[t][1].status = end]_vars

\* An execution has ended with an exception of the preparation and its record
\* is failed with the description of that exception.
C13_Witness ==
    \E t \in TrainingIds :
        /\ jobs[t].pc = "raised"
        /\ store[JobLoc(t)] # Absent
        /\ Custom(JobLoc(t)).training_id = <<t>>
        /\ Custom(JobLoc(t)).status = "failed"
        /\ Custom(JobLoc(t)).error = <<"Insufficient training images">>

\* C14: whenever get_training_status answers failed for a job, the answer
\* carries a non-empty error field with the error's description.
C14_FailedStatusCarriesError ==
    \A t \in TrainingIds :
        (status_response(t) # Absent /\ status_response(t)[1].status = "failed")
           => /\ status_response(t)[1].error # Absent
              /\ status_response(t)[1].error[1] # ""

C16_PendingUntilFirstUpdate ==
    \A t \in TrainingIds :
        (jobs[t].pc = "queued" /\ t \notin removed)
           => /\ get_training_status(t) # Absent
              /\ get_training_status(t)[1].status = "pending"
              /\ get_training_status(t)[1].progress = 0

\* The step is an update written by the execution of job t.
WritesUpdate(t) ==
    /\ Created(t)
    /\ jobs'[t] # jobs[t]
    /\ jobs'[t].pc # "killed"
    /\ store[JobLoc(t)] # Absent
    /\ (store' # store \/ active_jobs' # active_jobs)

\* C17: right after an update of a job whose record exists,
\* get_training_status returns the status, progress and message of that
\* update and the durable record holds the same values; the first update of
\* an execution is returned as running, 5, "Initializing training
\* environment...".
C17_GetReflectsUpdate ==
    [][\A t \in TrainingIds :
          WritesUpdate(t)
             => LET got == get_training_status(t)'
                    new == store'[JobLoc(t)][1].custom_metadata
                IN  /\ got # Absent
                    /\ new.status = got[1].status
                    /\ new.progress = <<got[1].progress>>
                    /\ new.message = <<got[1].message>>
                    /\ new.last_updated = <<Get(Custom(JobLoc(t)).last_updated, 0) + 1>>
                    /\ jobs[t].pc = "queued"
                          => /\ got[1].status = "running"
                             /\ got[1].progress = 5
                             /\ got[1].message = "Initializing training environment..."]_vars

\* The first update of a job has been written and is what
\* get_training_status returns.
C17_Witness ==
    \E t \in TrainingIds :
        /\ jobs[t].pc = "started"
        /\ get_training_status(t) # Absent
        /\ get_training_status(t)[1].progress = 5
        /\ store[JobLoc(t)] # Absent
        /\ Custom(JobLoc(t)).progress = <<5>>
        /\ Custom(JobLoc(t)).message = <<"Initializing training environment...">>

\* C18: a training id whose record is failed never becomes running again,
\* in the durable record or as returned by get_training_status.
C18_FailedNeverRunsAgain ==
    [][/\ \A loc \in Locations :
             (SameRecord(loc) /\ Custom(loc).status = "failed")
                => store'[loc][1].custom_metadata.status # "running"
       /\ \A t \in TrainingIds :
             (/\ get_training_status(t) # Absent
              /\ get_training_status(t)[1].status = "failed"
              /\ get_training_status(t)' # Absent)
                => get_training_status(t)'[1].status # "running"]_vars

\* The fields of the status record that are present in the record at loc.
StatusFields == {"progress", "message", "last_updated", "started_at",
                 "completed_at", "error"}

PresentFields(loc) == {f \in StatusFields : Custom(loc)[f] # Absent}

\* The record at the location of job t is the record created for t.
OwnRecord(t) ==
    /\ t \notin removed
    /\ store[JobLoc(t)] # Absent
    /\ Custom(JobLoc(t)).training_id = <<t>>

\* C19: two executions that ended the same way, whatever their strategies,
\* passed through the same sequence of statuses, and the records they leave
\* have the same status and the same fields (after an exception, apart from
\* the error field, which depends on the exception).
C19_StrategiesAgree ==
    \A t, u \in TrainingIds :
        (/\ jobs[t].pc \in {"returned", "raised"}
         /\ jobs[u].pc = jobs[t].pc)
           => /\ status_log[t] = status_log[u]
              /\ (OwnRecord(t) /\ OwnRecord(u))
                    => /\ Custom(JobLoc(t)).status = Custom(JobLoc(u)).status
                       /\ PresentFields(JobLoc(t)) \ {"error"}
                            = PresentFields(JobLoc(u)) \ {"error"}
                       /\ jobs[t].pc = "returned"
                             => PresentFields(JobLoc(t)) = PresentFields(JobLoc(u))

\* A LoRA execution (which saves nothing) and a DreamBooth execution (which
\* saves the pipeline) have both returned, each with its own record.
C19_Witness ==
    \E t, u \in TrainingIds :
        /\ jobs[t].pc = "returned"
        /\ jobs[u].pc = "returned"
        /\ OwnRecord(t)
        /\ OwnRecord(u)
        /\ ~artifacts[JobLoc(t)]
        /\ artifacts[JobLoc(u)]
        /\ status_log[t] = <<"running", "completed">>

\* C20: every job record that exists refers to a dataset whose number of
\* stored training images lies between the configured minimum and maximum.
C20_StoredImageCountWithinBounds ==
    \A loc \in Locations :
        store[loc] # Absent
           => /\ store[loc][1].num_images >= MinImages
              /\ store[loc][1].num_images <= MaxImages

-----------------------------------------------------------------------------
(* Properties of concurrent status reads and writes (SpecWrite)            *)

\* C21: a get_training_status call that runs while an update is being
\* written never fails on a partly written record: no call ends with an
\* error.
C21_PollNeverSeesTornRecord ==
    poll.outcome # "error"

-----------------------------------------------------------------------------
(* Discovery and ownership of durable records (Spec)                       *)

\* C22: the durable record of a created job is found by its training id,
\* without the in-memory index, for as long as delete_model_data has not been
\* called for its location.
C22_DiscoverableUntilDeleted ==
    \A t \in TrainingIds :
        (Created(t) /\ t \notin removed) => durable_scan(t) # Absent

\* C27: an update issued by the execution of job t changes no durable record
\* other than the one whose stored training_id is t.
C27_UpdateTouchesOwnRecordOnly ==
    [][\A t \in TrainingIds : \A loc \in Locations :
          (WritesUpdate(t) /\ store'[loc] # store[loc])
             => /\ loc = JobLoc(t)
                /\ Custom(loc).training_id = <<t>>]_vars

-----------------------------------------------------------------------------
(* Further properties of the model service (SpecCache)                     *)

\* C23: after clear_cache the cache holds no handle and
\* get_loaded_models_count is 0, whatever it held before; clearing a cleared
\* cache gives the cleared cache again, and clear_cache is always possible.
C23_ClearCacheEmpties ==
    /\ last_call.op = "clear_cache"
          => /\ \A m \in ModelIds : model_cache[m] = Absent
             /\ get_loaded_models_count = 0
             /\ last_call.ok
    /\ clear_cache(clear_cache(model_cache)) = clear_cache(model_cache)
    /\ clear_cache([m \in ModelIds |-> Absent]) = [m \in ModelIds |-> Absent]

\* The cache was cleared after a generation had put a handle in it.
C23_Witness ==
    /\ last_call.op = "clear_cache"
    /\ seen # {}
    /\ get_loaded_models_count = 0

\* C24: get_model_id gives a model identifier for every user id: the mapped
\* one for a mapped user and the default one for any other user.
C24_GetModelIdTotal ==
    /\ \A u \in CacheUsers : get_model_id(u) \in ModelIds
    /\ last_call.op = "generate_image"
          => /\ last_call.user_id \in DOMAIN USER_MODELS
                   => last_call.requested = USER_MODELS[last_call.user_id]
             /\ last_call.user_id \notin DOMAIN USER_MODELS
                   => last_call.requested = DEFAULT_MODEL_ID

\* A generation for an unmapped user has run on the default model id.
C24_Witness ==
    /\ last_call.op = "generate_image"
    /\ last_call.user_id \notin DOMAIN USER_MODELS
    /\ last_call.requested = DEFAULT_MODEL_ID
    /\ last_call.ok

\* One of the four parameters is outside its documented range.
OutOfRange(params) ==
    \/ params.num_inference_steps < 1 \/ params.num_inference_steps > 150
    \/ params.guidance_scale < 10 \/ params.guidance_scale > 200
    \/ params.width < 256 \/ params.width > 1024
    \/ params.height < 256 \/ params.height > 1024

C29_OnlyLoadedHandlesCached ==
    /\ [](\A m \in ModelIds :
             model_cache[m] # Absent
                => /\ Len(model_cache[m]) = 1
                   /\ model_cache[m][1].instance \in 1..next_handle
                   /\ model_cache[m][1].loaded_from \in ModelIds)
    /\ [][(IsAcquire /\ ~last_call'.ok) => model_cache' = model_cache]_vars

\* An acquire failed on both loads after an earlier load had succeeded.
C29_Witness ==
    /\ last_call.op = "generate_image"
    /\ ~last_call.ok
    /\ Len(last_call.attempts) = 2
    /\ next_handle >= 1
    /\ get_loaded_models_count = 0

\* C30: a resident entry stays in the cache, unchanged, through every step
\* that is not clear_cache; an acquire removes or replaces none.
C30_AcquireKeepsResidentEntries ==
    [][\A m \in ModelIds :
          model_cache[m] # Absent
             => \/ model_cache'[m] = model_cache[m]
                \/ last_call'.op = "clear_cache"]_vars

\* The first handle loaded is still resident after three calls, one of them
\* a load that made another handle, the last an acquire.
C30_Witness ==
    /\ calls = 3
    /\ last_call.op = "generate_image"
    /\ last_call.ok
    /\ model_cache[last_call.requested] # Absent
    /\ model_cache[last_call.requested][1].instance = 1
    /\ next_handle >= 2

-----------------------------------------------------------------------------
(* Properties of racing acquires (SpecRace)                                *)

\* No caller is between its cache test and its return.
Quiet == \A c \in Callers : callers[c].pc \notin {"load", "insert"}

\* C28: when the callers of get_or_load_model have finished, the cache holds
\* for every model id the handle assigned last, one entry per id, and
\* get_loaded_models_count counts each such id once.
C28_LastInsertionWins ==
    Quiet => /\ \A m \in ModelIds : model_cache[m] = inserted[m]
             /\ get_loaded_models_count =
                   Cardinality({m \in ModelIds : inserted[m] # Absent})

\* Both callers loaded the same model id and returned different handles;
\* the cache holds one of them.
C28_Witness ==
    /\ callers["a"].pc = "returned"
    /\ callers["b"].pc = "returned"
    /\ callers["a"].model_id = callers["b"].model_id
    /\ callers["a"].pipe # callers["b"].pipe
    /\ get_loaded_models_count = 1

-----------------------------------------------------------------------------
(* Residency of loaded models (SpecCache)                                  *)

\* C31: the handle stored in the cache under a model id was loaded from
\* that model id, so that no two entries can hold instances of one model.
C31_EntryLoadedFromItsKey ==
    \A m \in ModelIds :
        model_cache[m] # Absent => model_cache[m][1].loaded_from = m

-----------------------------------------------------------------------------
(* The in-memory index against the durable records (Spec)                  *)

\* The fields of a status answer that the two tiers are compared on.
AnswerFields == {"training_id", "status", "progress", "message", "started_at",
                 "completed_at"}

\* C32: for a job that is in the in-memory index, the answer of
\* get_training_status and the answer of the durable scan have the same
\* training_id, status, progress, message, started_at and completed_at.
C32_IndexAgreesWithDurableScan ==
    \A t \in TrainingIds :
        active_jobs[t] # Absent
           => /\ durable_scan(t) # Absent
              /\ \A f \in AnswerFields :
                    get(get_training_status(t)[1], f) = get(durable_scan(t)[1], f)

\* C33: a job whose training directory delete_model_data has removed is
\* not found by get_training_status.
C33_RemovedJobNotFound ==
    \A t \in removed : get_training_status(t) = Absent

-----------------------------------------------------------------------------
(* The dataset checks of start_training (SpecDataset)                      *)

\* The images directory is missing, or the number of image files in it is
\* below the minimum or above the maximum.
BadDataset(loc) ==
    \/ images[loc] = Absent
    \/ num_images(loc) < MinImages
    \/ num_images(loc) > MaxImages

DatasetErrors == {"Training images directory not found",
                  "Insufficient training images"}

\* C34: when start_training reaches its dataset checks with the images
\* directory missing or the image count out of bounds, it goes to its except
\* clause with the error and not into a fine-tuning procedure, and the except
\* clause leaves the record failed with the description of that error.
C34_BadDatasetFailsBeforeTraining ==
    [][\A t \in TrainingIds :
          /\ (/\ jobs[t].pc = "started"
              /\ jobs'[t].pc \notin {"started", "killed"}
              /\ BadDataset(JobLoc(t)))
                => /\ jobs'[t].pc = "outer_except"
                   /\ jobs'[t].error \in DatasetErrors
          /\ (/\ jobs[t].pc = "outer_except"
              /\ jobs[t].error \in DatasetErrors
              /\ jobs'[t].pc = "raised")
                => /\ store'[JobLoc(t)] # Absent
                   /\ store'[JobLoc(t)][1].custom_metadata.status = "failed"
                   /\ store'[JobLoc(t)][1].custom_metadata.error
                         = <<jobs[t].error>>]_vars

-----------------------------------------------------------------------------
(* The updates of one execution (Spec)                                     *)

\* C35: an execution of start_training issues at most one update with a
\* terminal status and no update after it, and one that has returned or
\* raised has issued exactly one.
C35_OneTerminalUpdate ==
    \A t \in TrainingIds :
        /\ issued[t].terminal <= 1
        /\ issued[t].later = 0
        /\ jobs[t].pc \in {"returned", "raised"} => issued[t].terminal = 1

-----------------------------------------------------------------------------
(* Fields of the durable record (Spec)                                     *)

\* C36: in every durable record completed_at is present exactly when the
\* status is completed or failed, and error is present only when the status
\* is failed.
C36_TimestampAndErrorMatchStatus ==
    \A loc \in Locations :
        store[loc] # Absent
           => /\ Custom(loc).completed_at # Absent <=> Custom(loc).status \in Terminal
              /\ Custom(loc).error # Absent => Custom(loc).status = "failed"

-----------------------------------------------------------------------------
(* Range of the progress (Spec)                                            *)

\* The progress expression of the loop, for every step of every number of
\* steps up to MaxSteps.
LoopProgressWithinRange ==
    \A num_steps \in 1..MaxSteps : \A global_step \in 0..num_steps :
        loop_progress_values(global_step, num_steps)
           \subseteq LoopBase..(LoopBase + LoopSpan)

\* C37: the progress of every durable record that has one and of every
\* in-memory entry is an integer from 0 to 100 (a record without one is
\* answered as 0);
\* while an execution is in the DreamBooth training loop the progress of its
\* last update is from 40 to 90, as is the value of the loop's progress
\* expression for every step of every number of steps.
C37_ProgressWithinRange ==
    /\ \A loc \in Locations :
          (store[loc] # Absent /\ Custom(loc).progress # Absent)
             => Custom(loc).progress[1] \in 0..100
    /\ \A t \in TrainingIds :
          /\ active_jobs[t] # Absent => active_jobs[t][1].progress \in 0..100
          /\ (jobs[t].pc = "db_loop" /\ active_jobs[t] # Absent)
                => active_jobs[t][1].progress \in LoopBase..(LoopBase + LoopSpan)
    /\ LoopProgressWithinRange

\* An execution in the training loop has reported a progress strictly
\* between the first and the last value of the loop.
C37_Witness ==
    \E t \in TrainingIds :
        /\ jobs[t].pc = "db_loop"
        /\ jobs[t].global_step > 0
        /\ jobs[t].global_step < jobs[t].num_steps
        /\ active_jobs[t] # Absent
        /\ active_jobs[t][1].progress > LoopBase
        /\ active_jobs[t][1].progress < LoopBase + LoopSpan

-----------------------------------------------------------------------------
(* Status polls and updates in flight (SpecWrite)                          *)

\* C38: a status poll changes neither the in-memory index nor a durable
\* record, nor the position of an update that is being written: whatever the
\* polls, the updates go on as they would without them.
C38_PollChangesNothing ==
    [][poll' # poll
          => /\ active_jobs' = active_jobs
             /\ store' = store
             /\ jobs' = jobs
             /\ writer' = writer
             /\ torn' = torn]_vars

\* A poll was answered from the durable scan with the pending record of a
\* job that is not in the in-memory index.
C38_Witness ==
    /\ poll.outcome = "found"
    /\ poll.status = "pending"
    /\ \A t \in TrainingIds : active_jobs[t] = Absent

-----------------------------------------------------------------------------
(* What an update writes and what it keeps (Spec)                          *)

\* The part of a durable record that is not status information.
Kept(metadata) ==
    [training_id      |-> metadata.custom_metadata.training_id,
     num_train_epochs |-> metadata.custom_metadata.num_train_epochs,
     train_batch_size |-> metadata.custom_metadata.train_batch_size,
     user_id          |-> metadata.user_id,
     model_identifier |-> metadata.model_identifier,
     created_at       |-> metadata.created_at,
     num_images       |-> metadata.num_images]

\* C39: an update leaves every record in place and keeps its training_id,
\* user_id, model_identifier, training parameters and image manifest.
C39_UpdateKeepsIdentityFields ==
    [][\A t \in TrainingIds : \A loc \in Locations :
          (WritesUpdate(t) /\ store[loc] # Absent)
             => /\ store'[loc] # Absent
                /\ Kept(store'[loc][1]) = Kept(store[loc][1])]_vars

\* A record has been updated twice and still carries the training id and
\* the two epochs it was created with.
C39_Witness ==
    \E t \in TrainingIds :
        /\ Created(t)
        /\ OwnRecord(t)
        /\ Custom(JobLoc(t)).last_updated = <<2>>
        /\ Custom(JobLoc(t)).num_train_epochs = 2

\* C40: update_training_status for a location without metadata file gives
\* back the store and the index as they were, and the execution that called
\* it goes on: its first update and the update of its except clause change
\* neither a record nor the index.
C40_UpdateWithoutFileChangesNothing ==
    /\ [](\A t \in TrainingIds :
             (Created(t) /\ store[JobLoc(t)] = Absent)
                => \A status \in {"running", "completed", "failed"} :
                      \A error \in {Absent, <<"CUDA out of memory">>} :
                         update_training_status(
                             S, jobs[t].user_id, jobs[t].model_identifier, t,
                             status, 0, "", error) = S)
    /\ [][\A t \in TrainingIds :
             (/\ \/ jobs[t].pc = "queued" /\ jobs'[t].pc = "started"
                 \/ jobs[t].pc = "outer_except" /\ jobs'[t].pc = "raised"
              /\ store[JobLoc(t)] = Absent)
                => /\ store' = store
                   /\ active_jobs' = active_jobs]_vars

\* The first update of an execution found no metadata file: the job has
\* started and is in neither tier.
C40_Witness ==
    \E t \in TrainingIds :
        /\ jobs[t].pc = "started"
        /\ t \in removed
        /\ store[JobLoc(t)] = Absent
        /\ active_jobs[t] = Absent

====
